---------------------------- MODULE Spec2Model ----------------------------
(***************************************************************************)
(* Model of the HTTP entry point (src/unnamed/part_000) and of the static  *)
(* frontend dispatcher (src/vite-express-handler.js).                      *)
(*                                                                         *)
(* Paths are strings, handled character by character as the JavaScript     *)
(* string and path functions handle them.  The Express application is a    *)
(* stack of layers in registration order; a request walks the stack, each  *)
(* handler either answering, calling next() or raising an error.           *)
(***************************************************************************)
EXTENDS Integers, Sequences, FiniteSets, TLC

VARIABLES
    files,      \* the regular files on disk (absolute paths)
    mimeDb,     \* the extension table of the installed mime-types package
    nodeEnv,    \* process.env.NODE_ENV
    req,        \* the request being handled, or the last one answered
    res,        \* its response (NoRes while it is being handled)
    pc,         \* index in Stack of the layer about to run; 0: no request in
                \* flight; Answered: the response has been sent
    err,        \* the error passed to next(err), NoErr if none
    contentType,\* the Content-Type header set on the response so far, "" if none
    trail,      \* handlers that have run for the current request, in order
    hits,       \* the rate limiter's store: client -> hits in the current window
    sent,       \* observer: client -> requests under /api sent in the current window
    bootPc,     \* position in the module's top-level code
    db,         \* state of the promise returned by connectdb()
    dbLog,      \* what the connectdb() callbacks have logged
    unhandled,  \* the promises that were rejected with no handler attached
    listening,  \* app.listen() has been called
    exitCode    \* -1 while the process runs, else the code it exited with

vars == <<files, mimeDb, nodeEnv, req, res, pc, err, contentType, trail, hits, sent,
          bootPc, db, dbLog, unhandled, listening, exitCode>>

reqVars == <<req, res, pc, err, contentType, trail>>
bootVars == <<bootPc, db, dbLog, unhandled, listening, exitCode>>

----------------------------------------------------------------------------
(* JavaScript string functions *)

startsWith(s, p) == Len(s) >= Len(p) /\ SubSeq(s, 1, Len(p)) = p

endsWith(s, p) == Len(s) >= Len(p) /\ SubSeq(s, Len(s) - Len(p) + 1, Len(s)) = p

\* s.substring(n): the characters from 0-based index n on
substring(s, n) == SubSeq(s, n + 1, Len(s))

charAt(s, i) == SubSeq(s, i, i)

lowerChar(c) ==
    CASE c = "A" -> "a" [] c = "D" -> "d" [] c = "I" -> "i" [] c = "J" -> "j"
      [] c = "M" -> "m" [] c = "N" -> "n" [] c = "P" -> "p" [] c = "S" -> "s"
      [] OTHER -> c

RECURSIVE toLowerCase(_)
toLowerCase(s) ==
    IF s = "" THEN "" ELSE lowerChar(charAt(s, 1)) \o toLowerCase(substring(s, 1))

\* 1-based index of the last occurrence of character c in s, 0 if none
RECURSIVE lastIndexOf(_, _)
lastIndexOf(s, c) ==
    IF s = "" THEN 0
    ELSE IF charAt(s, Len(s)) = c THEN Len(s)
    ELSE lastIndexOf(SubSeq(s, 1, Len(s) - 1), c)

----------------------------------------------------------------------------
(* Node's posix path module *)

RECURSIVE stripTrailingSlashes(_)
stripTrailingSlashes(p) ==
    IF Len(p) > 1 /\ endsWith(p, "/") THEN stripTrailingSlashes(SubSeq(p, 1, Len(p) - 1))
    ELSE p

\* the non-empty segments of p between slashes
RECURSIVE segmentsFrom(_, _, _, _)
segmentsFrom(p, i, cur, acc) ==
    IF i > Len(p) THEN (IF cur = "" THEN acc ELSE Append(acc, cur))
    ELSE IF charAt(p, i) = "/"
         THEN segmentsFrom(p, i + 1, "", IF cur = "" THEN acc ELSE Append(acc, cur))
         ELSE segmentsFrom(p, i + 1, cur \o charAt(p, i), acc)

segments(p) == segmentsFrom(p, 1, "", <<>>)

\* normalizeString for an absolute path: "." is dropped, ".." removes the
\* segment before it and is dropped at the root
RECURSIVE normalizeSegments(_, _)
normalizeSegments(segs, out) ==
    IF segs = <<>> THEN out
    ELSE LET s == Head(segs) IN
         IF s = "." THEN normalizeSegments(Tail(segs), out)
         ELSE IF s = ".."
              THEN normalizeSegments(Tail(segs),
                       IF out = <<>> THEN out ELSE SubSeq(out, 1, Len(out) - 1))
              ELSE normalizeSegments(Tail(segs), Append(out, s))

RECURSIVE joinSegments(_)
joinSegments(segs) ==
    IF segs = <<>> THEN ""
    ELSE IF Len(segs) = 1 THEN Head(segs)
    ELSE Head(segs) \o "/" \o joinSegments(Tail(segs))

\* path.normalize of an absolute path: a trailing slash is kept
normalize(p) ==
    LET body == joinSegments(normalizeSegments(segments(p), <<>>))
    IN  "/" \o body \o (IF body # "" /\ endsWith(p, "/") THEN "/" ELSE "")

\* path.join(a, b) and path.join(a, b, c), a absolute
join2(a, b) == normalize(IF b = "" THEN a ELSE a \o "/" \o b)

join3(a, b, c) == join2(a, IF c = "" THEN b ELSE IF b = "" THEN c ELSE b \o "/" \o c)

dirname(p) ==
    LET q == stripTrailingSlashes(p)
        k == lastIndexOf(q, "/")
    IN  IF k = 0 THEN "." ELSE IF k = 1 THEN "/" ELSE SubSeq(q, 1, k - 1)

basename(p) ==
    LET q == stripTrailingSlashes(p)
    IN  substring(q, lastIndexOf(q, "/"))

\* path.extname: from the last dot of the base name on; empty when there is
\* no dot, when the only dot starts the name, and for ".."
extname(p) ==
    LET b == basename(p)
        d == lastIndexOf(b, ".")
    IN  IF d <= 1 \/ b = ".." THEN "" ELSE SubSeq(b, d, Len(b))

----------------------------------------------------------------------------
(* The file system *)

\* __dirname of the entry point, and the two build directories it passes
dirName == "/srv"
userDistFullPath == join2(join2(dirName, "user_dist"), "")
adminDistFullPath == join2(join2(dirName, "admin_dist"), "")
adminPathPrefix == "/admin"

\* The entry point's own source file is on disk whenever the server runs.
BaseFiles == {"/srv/server.js"}

UserIndex == "/srv/user_dist/index.html"
AdminIndex == "/srv/admin_dist/index.html"

UserAssetFiles ==
    {"/srv/user_dist/assets/app.js", "/srv/user_dist/assets/chunk.mjs",
     "/srv/user_dist/assets/app.css", "/srv/user_dist/assets/frame.html",
     "/srv/user_dist/assets/icon.svg", "/srv/user_dist/assets/manifest.json",
     "/srv/user_dist/assets/logo.png", "/srv/user_dist/assets/APP.JS",
     "/srv/user_dist/assets/data.xyz", "/srv/user_dist/assets/LICENSE"}

AdminAssetFiles ==
    {"/srv/admin_dist/assets/admin.js", "/srv/admin_dist/assets/admin.css"}

\* Groups of files a deployment may or may not hold.
FileGroups ==
    {{UserIndex}, UserAssetFiles, {"/srv/user_dist/docs/index.html"},
     {"/srv/user_dist/api/does-not-exist/xyz"}, {AdminIndex}, AdminAssetFiles}

\* a deployment with both builds' index.html and a file named like an API path
IndexFiles ==
    BaseFiles \cup {UserIndex, AdminIndex, "/srv/user_dist/api/does-not-exist/xyz"}

isFile(p) == p \in files

isDirectory(p) ==
    \E f \in files : startsWith(f, stripTrailingSlashes(p) \o "/")

\* fs.existsSync: true of files and of directories
existsSync(p) == isFile(p) \/ isDirectory(p)

----------------------------------------------------------------------------
(* MIME types *)

MimeDbs == {"mime-db-1.52", "mime-db-1.54"}

\* the package's extension table; "" stands for an extension it does not know
mimeTypes(dbv, ext) ==
    CASE ext = "js"   -> (IF dbv = "mime-db-1.52" THEN "application/javascript"
                          ELSE "text/javascript")
      [] ext = "mjs"  -> (IF dbv = "mime-db-1.52" THEN "application/javascript"
                          ELSE "text/javascript")
      [] ext = "css"  -> "text/css"
      [] ext = "html" -> "text/html"
      [] ext = "svg"  -> "image/svg+xml"
      [] ext = "json" -> "application/json"
      [] ext = "png"  -> "image/png"
      [] ext = "txt"  -> "text/plain"
      [] OTHER -> ""

\* mime.lookup: the extension of "x." + path, lower-cased, looked up; "" for false
mimeLookup(p) ==
    LET extension == substring(toLowerCase(extname("x." \o p)), 1)
    IN  IF extension = "" THEN "" ELSE mimeTypes(mimeDb, extension)

\* getMimeType without its table of forced types
getMimeTypeNoOverride(filePath) ==
    IF mimeLookup(filePath) # "" THEN mimeLookup(filePath) ELSE "application/octet-stream"

getMimeType(filePath) ==
    IF endsWith(filePath, ".js") \/ endsWith(filePath, ".mjs") THEN "application/javascript"
    ELSE IF endsWith(filePath, ".css") THEN "text/css"
    ELSE IF endsWith(filePath, ".html") THEN "text/html"
    ELSE IF endsWith(filePath, ".svg") THEN "image/svg+xml"
    ELSE IF endsWith(filePath, ".json") THEN "application/json"
    ELSE IF mimeLookup(filePath) # "" THEN mimeLookup(filePath)
    ELSE "application/octet-stream"

----------------------------------------------------------------------------
(* What a handler does with the response *)

CallNext == [k |-> "next", status |-> 0, type |-> "", path |-> "", body |-> [k |-> "none"]]

\* res.set('Content-Type', type); res.sendFile(path)
SendFile(type, path) ==
    [k |-> "sendFile", status |-> 200, type |-> type, path |-> path,
     body |-> [k |-> "file", path |-> path]]

\* res.status(status).send(text): a string body is typed text/html unless a
\* Content-Type has been set
SendText(status, text) ==
    [k |-> "send", status |-> status, type |-> "text/html", path |-> "",
     body |-> [k |-> "text", text |-> text]]

\* res.status(status).json(body): typed application/json unless a
\* Content-Type has been set
SendJson(status, body) ==
    [k |-> "send", status |-> status, type |-> "application/json", path |-> "",
     body |-> body]

\* the final handler drops the headers set so far and writes its own
SendFinal(status, text) ==
    [k |-> "final", status |-> status, type |-> "text/html", path |-> "",
     body |-> [k |-> "text", text |-> text]]

serveFile(filePath, fallbackToIndex) ==
    IF existsSync(filePath) THEN SendFile(getMimeType(filePath), filePath)
    ELSE IF fallbackToIndex
         THEN LET indexPath == join2(dirname(filePath), "index.html")
              IN  IF existsSync(indexPath) THEN SendFile("text/html", indexPath)
                  ELSE SendText(404, "Not found")
         ELSE SendText(404, "Not found")

\* app.get(urlPrefix + "/assets/*")
assetsHandler(distPath, urlPrefix, path) ==
    LET assetPath == substring(path, Len(urlPrefix \o "/assets/"))
        fullAssetPath == join3(distPath, "assets", assetPath)
    IN  serveFile(fullAssetPath, FALSE)

\* the route without its "Skip for API routes" test
staticHandlerNoApiSkip(distPath, urlPrefix, path) ==
    LET rest == substring(path, Len(urlPrefix))
        filePath == IF rest = "" THEN "/" ELSE rest
        fullPath == join2(distPath, filePath)
        indexPath == join3(distPath, filePath, "index.html")
    IN  IF (endsWith(filePath, "/") \/ extname(filePath) = "") /\ existsSync(indexPath)
        THEN serveFile(indexPath, FALSE)
        ELSE serveFile(fullPath, TRUE)

\* app.get(urlPrefix + "/*")
staticHandler(distPath, urlPrefix, path) ==
    IF startsWith(path, "/api/") THEN CallNext
    ELSE LET rest == substring(path, Len(urlPrefix))
             filePath == IF rest = "" THEN "/" ELSE rest
             fullPath == join2(distPath, filePath)
             indexPath == join3(distPath, filePath, "index.html")
         IN  IF (endsWith(filePath, "/") \/ extname(filePath) = "") /\ existsSync(indexPath)
             THEN serveFile(indexPath, FALSE)
             ELSE serveFile(fullPath, TRUE)

\* app.get("*")
fallbackHandler(path) ==
    IF startsWith(path, "/api/")
    THEN SendJson(404, [k |-> "json", error |-> "API endpoint not found"])
    ELSE IF startsWith(path, adminPathPrefix)
            /\ existsSync(join2(adminDistFullPath, "index.html"))
         THEN serveFile(join2(adminDistFullPath, "index.html"), FALSE)
         ELSE IF existsSync(join2(userDistFullPath, "index.html"))
              THEN serveFile(join2(userDistFullPath, "index.html"), FALSE)
              ELSE SendText(404, "Not found")

----------------------------------------------------------------------------
(* The Express application: its layers in registration order *)

Use(path, h) == [kind |-> "use", path |-> path, h |-> h, dist |-> "", prefix |-> ""]
Get(path, h, dist, prefix) ==
    [kind |-> "get", path |-> path, h |-> h, dist |-> dist, prefix |-> prefix]
ErrorUse(path, h) == [kind |-> "err", path |-> path, h |-> h, dist |-> "", prefix |-> ""]

\* handleAssets(distPath, urlPrefix) registers two routes
handleAssets(distPath, urlPrefix) ==
    << Get(urlPrefix \o "/assets/*", "assets", distPath, urlPrefix),
       Get(urlPrefix \o "/*", "static", distPath, urlPrefix) >>

\* setupViteFrontends: admin first, then user, then the catch-all
setupViteFrontends ==
    handleAssets(adminDistFullPath, adminPathPrefix)
      \o handleAssets(userDistFullPath, "")
      \o << Get("*", "fallback", "", "") >>

EntryPointLayers ==
    << Use("/api", "limiter"),
       Use("/api", "helmet"),
       Use("/", "compression"),
       Use("/", "json"),
       Use("/", "urlencoded"),
       Use("/api", "trackAPIStats"),
       Use("/", "cors"),
       Use("/api/products", "router"),
       Use("/api/users", "router"),
       Use("/api/forms", "router"),
       Use("/api/news", "router"),
       Use("/api/appointments", "router"),
       Use("/api/admin", "router"),
       Use("/api/properties", "router"),
       Use("/api", "router"),
       Use("/api", "router"),
       Get("/api/status", "status", "", ""),
       ErrorUse("/api", "apiError") >>

Stack == EntryPointLayers \o setupViteFrontends

\* past the last layer Express's own final handler answers
Final == Len(Stack) + 1

\* the response has been written and the connection not yet released
Answered == Final + 1

\* Express compiles each layer's path to a regular expression that ignores case
LowerPaths == [j \in 1..Len(Stack) |-> toLowerCase(Stack[j].path)]

\* app.use(mount, fn): the path starts with the mount and the mount ends at
\* a "/" or at the end of the path (both arguments lower-cased)
prefixMatches(mount, path) ==
    \/ mount = "/"
    \/ /\ startsWith(path, mount)
       /\ \/ Len(path) = Len(mount)
          \/ charAt(path, Len(mount) + 1) = "/"

mountMatches(mount, path) == prefixMatches(toLowerCase(mount), toLowerCase(path))

\* app.get(pattern, fn): "*" matches any run of characters, and one trailing
\* slash is ignored (both arguments lower-cased)
routeMatches(pattern, path) ==
    IF endsWith(pattern, "*")
    THEN startsWith(path, SubSeq(pattern, 1, Len(pattern) - 1))
    ELSE path \in {pattern, pattern \o "/"}

layerMatches(j, method, lowerPath) ==
    IF Stack[j].kind = "get"
    THEN method \in {"GET", "HEAD"} /\ routeMatches(LowerPaths[j], lowerPath)
    ELSE prefixMatches(LowerPaths[j], lowerPath)

\* next() and next(err): the first later layer that matches the request; an
\* error skips to error handlers, which a plain next() skips
nextLayer(i, method, path, withError) ==
    LET lowerPath == toLowerCase(path)
        later == {j \in (i + 1)..Len(Stack) :
                     /\ (Stack[j].kind = "err") = withError
                     /\ layerMatches(j, method, lowerPath)}
    IN  IF later = {} THEN Final
        ELSE CHOOSE j \in later : \A k \in later : j <= k

----------------------------------------------------------------------------
(* Requests, responses, errors *)

\* request paths sent to the dispatcher
FrontPaths ==
    {"/", "/about", "/nonexistent/path", "/docs", "/logo.png",
     "/assets", "/assets/app.js", "/assets/chunk.mjs", "/assets/app.css",
     "/assets/frame.html", "/assets/icon.svg", "/assets/manifest.json",
     "/assets/logo.png", "/assets/APP.JS", "/assets/data.xyz", "/assets/LICENSE",
     "/assets/missing.js", "/assets/../index.html",
     "/admin", "/admin/", "/admin/does-not-exist", "/admin/a/b", "/adminfoo",
     "/admin/assets/admin.js", "/admin/assets/admin.css", "/admin/assets/missing.css",
     "/api", "/api/does-not-exist/xyz", "/api/status",
     "/../server.js", "/admin/../../server.js"}

Methods == {"GET", "POST"}

\* request paths sent to the entry point
ApiPaths == {"/api/status", "/api/products", "/api/does-not-exist/xyz", "/about"}

\* nextLayer for every request of the model, computed once
Routing ==
    [i \in 0..Len(Stack), m \in Methods, p \in FrontPaths \cup ApiPaths, e \in BOOLEAN
        |-> nextLayer(i, m, p, e)]

NextLayer(i, r, withError) == Routing[i, r.method, r.path, withError]

Clients == {"c1", "c2"}

NoBody == [type |-> "none", mb |-> 0, ok |-> TRUE]

NoReq == [client |-> "", method |-> "", path |-> "", body |-> NoBody, ord |-> 0]

NoRes == [status |-> 0, type |-> "", body |-> [k |-> "none"], by |-> ""]

NoErr == [status |-> 0, message |-> "", raised |-> FALSE]

RaiseError(status, message) ==
    [k |-> "error", status |-> 0, type |-> "", path |-> "", body |-> [k |-> "none"],
     err |-> [status |-> status, message |-> message, raised |-> TRUE]]

\* What a handler's outcome e does to the request: the response is sent, or
\* the request moves on.  res.sendFile of a directory calls next(), with the
\* Content-Type that was set before it left on the response.
Finish(h, e) ==
    /\ trail' = Append(trail, h)
    /\ req' = req
    /\ contentType' = IF e.k = "sendFile" \/ e.k = "final" THEN e.type
                      ELSE IF e.k = "send" /\ contentType = "" THEN e.type
                      ELSE contentType
    /\ IF e.k = "error"
       THEN /\ pc' = NextLayer(pc, req, TRUE)
            /\ err' = e.err
            /\ res' = res
       ELSE IF e.k = "next" \/ (e.k = "sendFile" /\ ~isFile(e.path))
       THEN /\ pc' = NextLayer(pc, req, FALSE)
            /\ err' = err
            /\ res' = res
       ELSE /\ pc' = Answered
            /\ err' = err
            /\ res' = [status |-> e.status, type |-> contentType', body |-> e.body,
                       by |-> h]

\* the process has not exited
Alive == exitCode = -1

Running(h) == Alive /\ pc \in 1..Len(Stack) /\ Stack[pc].h = h

----------------------------------------------------------------------------
(* The dispatcher's routes *)

AssetsRoute ==
    /\ Running("assets")
    /\ Finish("assets", assetsHandler(Stack[pc].dist, Stack[pc].prefix, req.path))
    /\ UNCHANGED <<files, mimeDb, nodeEnv, hits, sent, bootVars>>

StaticRoute ==
    /\ Running("static")
    /\ Finish("static", staticHandler(Stack[pc].dist, Stack[pc].prefix, req.path))
    /\ UNCHANGED <<files, mimeDb, nodeEnv, hits, sent, bootVars>>

FallbackRoute ==
    /\ Running("fallback")
    /\ Finish("fallback", fallbackHandler(req.path))
    /\ UNCHANGED <<files, mimeDb, nodeEnv, hits, sent, bootVars>>

\* Express's final handler: the error's status (500 without one) for an
\* error no handler took, 404 for a request no route answered
finalHandler ==
    IF err.raised
    THEN SendFinal(IF err.status = 0 THEN 500 ELSE err.status, "Error")
    ELSE SendFinal(404, "Cannot " \o req.method \o " " \o req.path)

FinalHandler ==
    /\ Alive
    /\ pc = Final
    /\ Finish("finalhandler", finalHandler)
    /\ UNCHANGED <<files, mimeDb, nodeEnv, hits, sent, bootVars>>

\* The response has been flushed; the server is ready for the next request.
Release ==
    /\ Alive
    /\ pc = Answered
    /\ pc' = 0
    /\ req' = NoReq /\ res' = NoRes /\ err' = NoErr /\ trail' = <<>>
    /\ contentType' = ""
    /\ UNCHANGED <<files, mimeDb, nodeEnv, hits, sent, bootVars>>

----------------------------------------------------------------------------
(* Specification of the dispatcher: requests the entry point has passed on  *)
(* with next(), over every deployment of the two builds                     *)

FirstFrontLayer == Len(EntryPointLayers)

Forwarded(c, m, p) ==
    /\ listening /\ Alive
    /\ pc = 0
    /\ req' = [client |-> c, method |-> m, path |-> p, body |-> NoBody, ord |-> 0]
    /\ res' = NoRes
    /\ err' = NoErr
    /\ contentType' = ""
    /\ trail' = <<>>
    /\ pc' = NextLayer(FirstFrontLayer, req', FALSE)
    /\ UNCHANGED <<files, mimeDb, nodeEnv, hits, sent, bootVars>>

InitFront ==
    /\ \E groups \in SUBSET FileGroups : files = BaseFiles \cup UNION groups
    /\ mimeDb \in MimeDbs
    /\ nodeEnv = "production"
    /\ req = NoReq /\ res = NoRes /\ pc = 0 /\ err = NoErr /\ trail = <<>>
    /\ contentType = ""
    /\ hits = [c \in Clients |-> 0] /\ sent = [c \in Clients |-> 0]
    /\ bootPc = "serving" /\ db = "resolved" /\ dbLog = "connected"
    /\ unhandled = {} /\ listening = TRUE /\ exitCode = -1

NextFront ==
    \/ \E m \in Methods, p \in FrontPaths : Forwarded("c1", m, p)
    \/ AssetsRoute
    \/ StaticRoute
    \/ FallbackRoute
    \/ FinalHandler
    \/ Release

SpecFront == InitFront /\ [][NextFront]_vars

----------------------------------------------------------------------------
(* The entry point's middleware and routes *)

\* rateLimit({max: 500}): requests per client and window
Max == 500

\* express.json / express.urlencoded({limit: '50mb'})
LimitMb == 50

TooManyRequests ==
    [k |-> "json", success |-> FALSE,
     message |-> "Too many requests, please try again later."]

\* a limiter that refuses the request that reaches max
limiterOffByOne(totalHits) ==
    IF totalHits >= Max THEN SendJson(429, TooManyRequests) ELSE CallNext

\* express-rate-limit: the request is counted, then refused once the
\* client's count in the window exceeds max
limiter(totalHits) ==
    IF totalHits > Max THEN SendJson(429, TooManyRequests) ELSE CallNext

Limiter ==
    /\ Running("limiter")
    /\ hits' = [hits EXCEPT ![req.client] = @ + 1]
    /\ Finish("limiter", limiter(hits'[req.client]))
    /\ UNCHANGED <<files, mimeDb, nodeEnv, sent, bootVars>>

\* The limiter's window ends: every count starts again.
WindowReset ==
    /\ Alive
    /\ pc = 0
    /\ \E c \in Clients : hits[c] > 0
    /\ hits' = [c \in Clients |-> 0]
    /\ sent' = [c \in Clients |-> 0]
    /\ UNCHANGED <<files, mimeDb, nodeEnv, reqVars, bootVars>>

\* helmet() and compression() set headers and wrap the response stream
Helmet ==
    /\ Running("helmet")
    /\ Finish("helmet", CallNext)
    /\ UNCHANGED <<files, mimeDb, nodeEnv, hits, sent, bootVars>>

Compression ==
    /\ Running("compression")
    /\ Finish("compression", CallNext)
    /\ UNCHANGED <<files, mimeDb, nodeEnv, hits, sent, bootVars>>

\* A body parser reads a body of its own content type: over the limit it
\* raises 413, and the JSON parser raises 400 on a body that does not parse.
bodyParser(type, body) ==
    IF body.type # type THEN CallNext
    ELSE IF body.mb > LimitMb THEN RaiseError(413, "request entity too large")
    ELSE IF type = "json" /\ ~body.ok THEN RaiseError(400, "Unexpected token in JSON")
    ELSE CallNext

JsonParser ==
    /\ Running("json")
    /\ Finish("json", bodyParser("json", req.body))
    /\ UNCHANGED <<files, mimeDb, nodeEnv, hits, sent, bootVars>>

UrlencodedParser ==
    /\ Running("urlencoded")
    /\ Finish("urlencoded", bodyParser("form", req.body))
    /\ UNCHANGED <<files, mimeDb, nodeEnv, hits, sent, bootVars>>

\* What code outside the two files may do with a request: raise an error
\* with or without a status and a message
OpaqueErrors == {RaiseError(0, ""), RaiseError(503, "Service unavailable")}

Handled ==
    [k |-> "send", status |-> 200, type |-> "application/json", path |-> "",
     body |-> [k |-> "opaque"]]

\* trackAPIStats (./middleware/statsMiddleware.js): passes the request on or fails
TrackAPIStats ==
    /\ Running("trackAPIStats")
    /\ \E e \in {CallNext} \cup OpaqueErrors : Finish("trackAPIStats", e)
    /\ UNCHANGED <<files, mimeDb, nodeEnv, hits, sent, bootVars>>

\* cors(): response headers only, for the methods modelled
Cors ==
    /\ Running("cors")
    /\ Finish("cors", CallNext)
    /\ UNCHANGED <<files, mimeDb, nodeEnv, hits, sent, bootVars>>

\* A mounted route module (./routes/*.js): answers, fails or has no route
Router ==
    /\ Running("router")
    /\ \E e \in {CallNext, Handled} \cup OpaqueErrors : Finish("router", e)
    /\ UNCHANGED <<files, mimeDb, nodeEnv, hits, sent, bootVars>>

\* the endpoint with time: new Date().toString()
statusHandlerLocalTime ==
    SendJson(200, [k |-> "json", status |-> "OK", time |-> "toString"])

\* app.get('/api/status'): time is new Date().toISOString()
statusHandler ==
    SendJson(200, [k |-> "json", status |-> "OK", time |-> "toISOString"])

StatusRoute ==
    /\ Running("status")
    /\ Finish("status", statusHandler)
    /\ UNCHANGED <<files, mimeDb, nodeEnv, hits, sent, bootVars>>

\* the handler without "err.status ||"
apiErrorHandlerAlways500(e) ==
    SendJson(500,
        [k |-> "json", success |-> FALSE,
         message |-> IF e.message = "" THEN "Internal server error" ELSE e.message,
         statusCode |-> 500,
         stack |-> nodeEnv = "development",
         timestamp |-> "toISOString"])

\* app.use('/api', (err, req, res, next) => ...); stack: whether the
\* envelope has the field
apiErrorHandler(e) ==
    LET statusCode == IF e.status = 0 THEN 500 ELSE e.status
    IN  SendJson(statusCode,
            [k |-> "json", success |-> FALSE,
             message |-> IF e.message = "" THEN "Internal server error" ELSE e.message,
             statusCode |-> statusCode,
             stack |-> nodeEnv = "development",
             timestamp |-> "toISOString"])

ApiErrorHandler ==
    /\ Running("apiError")
    /\ Finish("apiError", apiErrorHandler(err))
    /\ UNCHANGED <<files, mimeDb, nodeEnv, hits, sent, bootVars>>

----------------------------------------------------------------------------
(* Specification of the entry point: requests of two clients through the   *)
(* whole stack, with both builds deployed                                  *)

\* requests under /api the observed client sends past the limit in a window
Over == 2

\* requests under /api the other client sends in a window
Other == 1

ApiBudget(c) == IF c = "c1" THEN Max + Over ELSE Other

Bodies ==
    {NoBody,
     [type |-> "json", mb |-> 1, ok |-> FALSE],
     [type |-> "json", mb |-> 51, ok |-> TRUE],
     [type |-> "form", mb |-> 51, ok |-> TRUE]}

UnderApi(path) == mountMatches("/api", path)

Arrive(c, m, p, b) ==
    /\ listening /\ Alive
    /\ pc = 0
    /\ UnderApi(p) => sent[c] < ApiBudget(c)
    /\ sent' = IF UnderApi(p) THEN [sent EXCEPT ![c] = @ + 1] ELSE sent
    /\ req' = [client |-> c, method |-> m, path |-> p, body |-> b,
               ord |-> IF UnderApi(p) THEN sent'[c] ELSE 0]
    /\ res' = NoRes
    /\ err' = NoErr
    /\ contentType' = ""
    /\ trail' = <<>>
    /\ pc' = NextLayer(0, req', FALSE)
    /\ UNCHANGED <<files, mimeDb, nodeEnv, hits, bootVars>>

InitApi ==
    /\ files = IndexFiles
    /\ mimeDb = "mime-db-1.52"
    /\ nodeEnv \in {"development", "production"}
    /\ req = NoReq /\ res = NoRes /\ pc = 0 /\ err = NoErr /\ trail = <<>>
    /\ contentType = ""
    /\ hits = [c \in Clients |-> 0] /\ sent = [c \in Clients |-> 0]
    /\ bootPc = "serving" /\ db = "resolved" /\ dbLog = "connected"
    /\ unhandled = {} /\ listening = TRUE /\ exitCode = -1

NextApi ==
    \/ \E c \in Clients, p \in ApiPaths : Arrive(c, "GET", p, NoBody)
    \/ \E c \in Clients, p \in ApiPaths, b \in Bodies : Arrive(c, "POST", p, b)
    \/ Limiter
    \/ Helmet
    \/ Compression
    \/ JsonParser
    \/ UrlencodedParser
    \/ TrackAPIStats
    \/ Cors
    \/ Router
    \/ StatusRoute
    \/ ApiErrorHandler
    \/ StaticRoute
    \/ FallbackRoute
    \/ FinalHandler
    \/ Release
    \/ WindowReset

SpecApi == InitApi /\ [][NextApi]_vars

----------------------------------------------------------------------------
(* The entry point's top-level code and the promises of the process *)

\* connectdb().then(log) with no .catch
connectdbNoCatch(settled) ==
    IF settled = "resolved" THEN [log |-> "Database connected successfully", caught |-> TRUE]
    ELSE [log |-> "", caught |-> FALSE]

\* connectdb().then(log).catch(log): what runs once the promise has settled
connectdbCallbacks(settled) ==
    IF settled = "resolved" THEN [log |-> "Database connected successfully", caught |-> TRUE]
    ELSE [log |-> "Database connection error", caught |-> TRUE]

\* line 66: connectdb() is called and the callbacks attached; the promise
\* may already be rejected when it is returned
ConnectDb ==
    /\ bootPc = "connectdb"
    /\ db' \in {"pending", "rejected"}
    /\ bootPc' = "tempDir"
    /\ UNCHANGED <<files, mimeDb, nodeEnv, reqVars, hits, sent, dbLog, unhandled,
                   listening, exitCode>>

\* lines 73-76: the temp directory is created if absent (nothing modelled reads it)
EnsureTempDir ==
    /\ bootPc = "tempDir"
    /\ bootPc' = "routes"
    /\ UNCHANGED <<files, mimeDb, nodeEnv, reqVars, hits, sent, db, dbLog, unhandled,
                   listening, exitCode>>

\* lines 79-113: the routes, the error handler and the frontends are registered
RegisterRoutes ==
    /\ bootPc = "routes"
    /\ bootPc' = "onUnhandledRejection"
    /\ UNCHANGED <<files, mimeDb, nodeEnv, reqVars, hits, sent, db, dbLog, unhandled,
                   listening, exitCode>>

\* lines 116-120: process.on('unhandledRejection', ...)
RegisterUnhandledRejection ==
    /\ bootPc = "onUnhandledRejection"
    /\ bootPc' = "listen"
    /\ UNCHANGED <<files, mimeDb, nodeEnv, reqVars, hits, sent, db, dbLog, unhandled,
                   listening, exitCode>>

\* lines 125-131: whether app.listen is called
listen == nodeEnv # "test"

Listen ==
    /\ bootPc = "listen"
    /\ listening' = listen
    /\ bootPc' = "serving"
    /\ UNCHANGED <<files, mimeDb, nodeEnv, reqVars, hits, sent, db, dbLog, unhandled,
                   exitCode>>

\* The database connection succeeds or fails, in a later turn of the event loop.
DbSettles ==
    /\ Alive
    /\ bootPc = "serving"
    /\ db = "pending"
    /\ db' \in {"resolved", "rejected"}
    /\ UNCHANGED <<files, mimeDb, nodeEnv, reqVars, hits, sent, bootPc, dbLog, unhandled,
                   listening, exitCode>>

\* The callbacks attached to connectdb() run, after the top-level code.
DbCallbacks ==
    /\ Alive
    /\ bootPc = "serving"
    /\ db \in {"resolved", "rejected"}
    /\ dbLog = "" /\ "connectdb" \notin unhandled
    /\ LET r == connectdbCallbacks(db)
       IN  /\ dbLog' = r.log
           /\ unhandled' = IF r.caught THEN unhandled ELSE unhandled \cup {"connectdb"}
    /\ UNCHANGED <<files, mimeDb, nodeEnv, reqVars, hits, sent, bootPc, db,
                   listening, exitCode>>

\* Some other promise of the process is rejected and has no handler.
OtherRejection ==
    /\ Alive
    /\ bootPc = "serving"
    /\ "other" \notin unhandled
    /\ unhandled' = unhandled \cup {"other"}
    /\ UNCHANGED <<files, mimeDb, nodeEnv, reqVars, hits, sent, bootPc, db, dbLog,
                   listening, exitCode>>

\* the 'unhandledRejection' listener: log and process.exit(1)
UnhandledRejection ==
    /\ Alive
    /\ unhandled # {}
    /\ exitCode' = 1
    /\ UNCHANGED <<files, mimeDb, nodeEnv, reqVars, hits, sent, bootPc, db, dbLog,
                   unhandled, listening>>

----------------------------------------------------------------------------
(* Specification of the start-up: the top-level code, the database promise *)
(* and requests for a page of the user frontend                            *)

InitBoot ==
    /\ files = IndexFiles
    /\ mimeDb = "mime-db-1.52"
    /\ nodeEnv \in {"development", "production", "test"}
    /\ req = NoReq /\ res = NoRes /\ pc = 0 /\ err = NoErr /\ trail = <<>>
    /\ contentType = ""
    /\ hits = [c \in Clients |-> 0] /\ sent = [c \in Clients |-> 0]
    /\ bootPc = "connectdb" /\ db = "none" /\ dbLog = ""
    /\ unhandled = {} /\ listening = FALSE /\ exitCode = -1

NextBoot ==
    \/ ConnectDb
    \/ EnsureTempDir
    \/ RegisterRoutes
    \/ RegisterUnhandledRejection
    \/ Listen
    \/ DbSettles
    \/ DbCallbacks
    \/ OtherRejection
    \/ UnhandledRejection
    \/ Arrive("c1", "GET", "/about", NoBody)
    \/ Compression
    \/ JsonParser
    \/ UrlencodedParser
    \/ Cors
    \/ StaticRoute
    \/ Release

SpecBoot == InitBoot /\ [][NextBoot]_vars

----------------------------------------------------------------------------
(* Properties of the dispatcher *)

AnsweredGet == pc = Answered /\ req.method = "GET"

SentFile(f) == res.status = 200 /\ res.body = [k |-> "file", path |-> f]

UnderAdminPrefix(path) == mountMatches(adminPathPrefix, path)

\* index.html of the app a path resolves to
AppIndexOf(path) == IF UnderAdminPrefix(path) THEN AdminIndex ELSE UserIndex

InsideDir(f, dir) == startsWith(f, dir \o "/")

\* C1 as stated: a GET for a path outside /api with no file extension, at
\* any depth, gets 200 text/html with the body of its app's index.html
\* whenever that index.html exists.
C1_SpaFallbackAnyDepth ==
    (/\ AnsweredGet
     /\ ~startsWith(req.path, "/api")
     /\ extname(req.path) = ""
     /\ isFile(AppIndexOf(req.path)))
    => /\ SentFile(AppIndexOf(req.path))
       /\ res.type = "text/html"

\* C2 as stated: with the admin build present, a GET under adminPrefix that
\* names no file of adminRootDir gets the admin index.html, never a 404.
C2_AdminFallbackAnyDepth ==
    (/\ AnsweredGet
     /\ startsWith(req.path, adminPathPrefix \o "/")
     /\ isFile(AdminIndex)
     /\ ~isFile(join2(adminDistFullPath, substring(req.path, Len(adminPathPrefix)))))
    => /\ SentFile(AdminIndex)
       /\ res.status # 404

\* C3: a request whose path starts with /api/ is never answered with a file,
\* whatever files exist; a GET that reaches the dispatcher ends in the JSON
\* 404 {error: "API endpoint not found"} sent by the catch-all route.
C3_ApiNeverFromFilesystem ==
    (pc = Answered /\ startsWith(req.path, "/api/"))
    => /\ res.body.k # "file"
       /\ req.method = "GET" =>
            /\ res.status = 404
            /\ res.type = "application/json"
            /\ res.body = [k |-> "json", error |-> "API endpoint not found"]
            /\ res.by = "fallback"
            /\ trail = <<"static", "fallback">>

\* C3 witness: the file named by an /api/ path exists and is not served
C3_Witness ==
    /\ AnsweredGet
    /\ req.path = "/api/does-not-exist/xyz"
    /\ isFile("/srv/user_dist/api/does-not-exist/xyz")
    /\ isFile(UserIndex)
    /\ res.by = "fallback"

\* The Content-Type C6 states for a file name: the override table for the
\* six suffixes, else the generic lookup, else application/octet-stream.
C6_ExpectedType(name) ==
    CASE endsWith(name, ".js") \/ endsWith(name, ".mjs") -> "application/javascript"
      [] endsWith(name, ".css") -> "text/css"
      [] endsWith(name, ".html") -> "text/html"
      [] endsWith(name, ".svg") -> "image/svg+xml"
      [] endsWith(name, ".json") -> "application/json"
      [] OTHER -> IF mimeTypes(mimeDb, substring(toLowerCase(extname(name)), 1)) = ""
                      \/ extname(name) = ""
                  THEN "application/octet-stream"
                  ELSE mimeTypes(mimeDb, substring(toLowerCase(extname(name)), 1))

\* C6: an existing file served by an assets route (/assets/* or
\* adminPrefix/assets/*) carries the Content-Type of the override table when
\* its name ends in one of the six suffixes, whatever the generic lookup
\* says, and otherwise the lookup's result or application/octet-stream.
C6_AssetContentType ==
    (AnsweredGet /\ res.by = "assets" /\ res.body.k = "file")
    => res.type = C6_ExpectedType(basename(req.path))

\* C6 witness: an asset whose generic type differs from the override is served
C6_Witness ==
    /\ AnsweredGet /\ res.by = "assets" /\ res.body.k = "file"
    /\ req.path = "/assets/chunk.mjs"
    /\ mimeLookup(res.body.path) = "text/javascript"
    /\ res.type = "application/javascript"

\* C9 as stated: with the admin index.html present, every GET whose path
\* starts with adminPrefix (the bare /admin included) and not with /api/ is
\* answered from the admin root, never from the user root.
C9_AdminPrefixFromAdminRoot ==
    (/\ AnsweredGet
     /\ startsWith(req.path, adminPathPrefix)
     /\ ~startsWith(req.path, "/api/")
     /\ isFile(AdminIndex))
    => /\ res.body.k = "file"
       /\ InsideDir(res.body.path, adminDistFullPath)

\* C10 as stated: every file the dispatcher sends lies inside the root of
\* the app that handles the request, and inside its assets/ directory for
\* the assets routes.
C10_SentFileInsideRoot ==
    (AnsweredGet /\ res.body.k = "file")
    => /\ \/ InsideDir(res.body.path, userDistFullPath)
          \/ InsideDir(res.body.path, adminDistFullPath)
       /\ res.by = "assets" =>
            \/ InsideDir(res.body.path, join2(userDistFullPath, "assets"))
            \/ InsideDir(res.body.path, join2(adminDistFullPath, "assets"))

----------------------------------------------------------------------------
(* Properties of the entry point *)

StatusRequest == AnsweredGet /\ req.path = "/api/status"

StatusOK ==
    /\ res.status = 200
    /\ res.body.k = "json" /\ res.body.status = "OK" /\ res.body.time = "toISOString"

RateLimited ==
    /\ res.status = 429
    /\ res.type = "application/json"
    /\ res.body = [k |-> "json", success |-> FALSE,
                   message |-> "Too many requests, please try again later."]
    /\ res.by = "limiter"

\* answered or failed by code outside the two files, or by a body parser
Intercepted == res.by = "router" \/ err.raised

\* C4 as stated, for requests that no other middleware or route module
\* answers or fails: GET /api/status returns 200 with status "OK" and an
\* ISO-8601 time, however many /api requests the client has sent before.
C4_StatusAlwaysOK ==
    (StatusRequest /\ ~Intercepted) => StatusOK

\* C4 amended: GET /api/status returns 200 with status "OK" and an ISO-8601
\* time when it is among the client's first 500 requests under /api in the
\* window and no middleware or route module registered before the endpoint
\* answers it or raises an error; from the 501st request of the window on it
\* is answered by the rate limiter.
C4_StatusOKWithinLimit ==
    StatusRequest =>
        /\ (req.ord <= Max /\ ~Intercepted) => (StatusOK /\ res.by = "status")
        /\ req.ord > Max => RateLimited

\* C4 witness: the last request of a window that the limiter lets through
C4_Witness ==
    StatusRequest /\ req.ord = Max /\ res.by = "status" /\ StatusOK

\* the request's path is /api or lies under it
ApiRequest == req.path = "/api" \/ startsWith(req.path, "/api/")

\* C5: of the requests a client sends under /api in one window the first
\* 500 pass the limiter; the 501st and every later one is answered by the
\* limiter with the rate-limit body and reaches no body parser, stats
\* middleware or route; requests outside /api are neither counted nor limited.
C5_RateLimit ==
    /\ \A c \in Clients :
          hits[c] = sent[c] - (IF Running("limiter") /\ req.client = c THEN 1 ELSE 0)
    /\ (pc # 0 /\ ~Running("limiter") /\ ApiRequest) =>
          /\ Head(trail) = "limiter"
          /\ IF req.ord > Max
             THEN pc = Answered /\ RateLimited /\ trail = <<"limiter">>
             ELSE res.by # "limiter"
    /\ (pc # 0 /\ ~ApiRequest) =>
          /\ req.ord = 0
          /\ res.by # "limiter"
          /\ \A i \in 1..Len(trail) : trail[i] # "limiter"

\* C5 witness: the 501st request of a window has been refused
C5_Witness ==
    pc = Answered /\ req.ord = Max + 1 /\ RateLimited /\ req.client = "c1"

C8_DbRejectionHandled ==
    /\ bootPc = "serving" => listening = (nodeEnv # "test")
    /\ "connectdb" \notin unhandled
    /\ (db = "rejected" /\ dbLog # "") => dbLog = "Database connection error"
    /\ ~Alive => (exitCode = 1 /\ "other" \in unhandled)

\* C8 witness: a request is answered after the connection failed and the
\* failure was logged
C8_Witness ==
    /\ db = "rejected" /\ dbLog = "Database connection error"
    /\ listening /\ Alive
    /\ pc = Answered /\ res.status = 200

=============================================================================
